---- MODULE Spec2Model ----
(***************************************************************************)
(* Daily quote publication pipeline of shrutam-backend.                    *)
(*                                                                         *)
(* State: the two tables of the backing store (quotes, daily_logs), the    *)
(* wall clock, the deployment parameters (host timezone, presence of the   *)
(* unique_shlok constraint) and, for every caller, the position inside     *)
(* shouldGenerateQuoteForToday / generateAndStoreQuote / generateQuoteWithAI*)
(* together with its local variables.  Every await on the store or on the  *)
(* completion capability is one atomic step.                               *)
(***************************************************************************)
EXTENDS Integers, Sequences, FiniteSets, TLC

(***************************************************************************)
(* Bounds of the model.                                                    *)
(***************************************************************************)
\* last calendar day (UTC) the clock may reach; days are 0..MaxDay
MaxDay == 1
\* entries of the fallback table kept per category (the table has 3)
FallbackPerCategory == 1
\* store faults the environment may inject in SpecFault
MaxFaults == 1
\* calls of generateAndStoreQuote that may go past the existence check
MaxGenerations == 2

(***************************************************************************)
(* Time.  One slot is 30 minutes; instants are slots since 00:00 UTC of    *)
(* day 0.  Asia/Kolkata is UTC+5:30 = 11 slots.                            *)
(***************************************************************************)
SlotsPerDay == 48
ISTOffset == 11
SixAM == 12

\* the concurrent callers of the publication coordinator
Callers == {"scheduler", "manual"}

\* host timezones of the node process (offset from UTC in slots): UTC, IST
HostOffsets == {0, 11}

Dates == 0 .. (MaxDay + 1)

\* new Date().toISOString().split('T')[0]
utcDate(t) == t \div SlotsPerDay

\* calendar date in Asia/Kolkata at instant t
istDate(t) == (t + ISTOffset) \div SlotsPerDay

\* instants of a day the clock visits: 00:30 UTC (= 06:00 IST, the cron
\* instant) and 18:30 UTC (= 00:00 IST of the next day)
DayMarks == {1, 37}

Instants == {d * SlotsPerDay + m : d \in 0 .. MaxDay, m \in DayMarks}

(***************************************************************************)
(* Text.  A text is a sequence of one-character strings.                   *)
(***************************************************************************)
Empty == << >>

toLowerChar(c) ==
  CASE c = "A" -> "a"
    [] c = "B" -> "b"
    [] c = "C" -> "c"
    [] OTHER -> c

\* String.prototype.toLowerCase
toLowerCase(s) == [i \in 1 .. Len(s) |-> toLowerChar(s[i])]

RECURSIVE trimStart(_)
trimStart(s) ==
  IF s # Empty /\ Head(s) = " " THEN trimStart(Tail(s)) ELSE s

RECURSIVE trimEnd(_)
trimEnd(s) ==
  IF s # Empty /\ s[Len(s)] = " " THEN trimEnd(SubSeq(s, 1, Len(s) - 1)) ELSE s

\* String.prototype.trim
trim(s) == trimEnd(trimStart(s))

\* String.prototype.includes
includes(s, t) ==
  \E i \in 1 .. (Len(s) - Len(t) + 1) : SubSeq(s, i, i + Len(t) - 1) = t

(***************************************************************************)
(* Categories and the fallback table.                                      *)
(***************************************************************************)
QUOTE_CATEGORIES ==
  << "karma", "peace", "wisdom", "devotion", "yoga", "truth", "dharma", "meditation" >>

\* the category of a row whose category column is NULL / undefined
NoCategory == "none"

\* order in which the fallback table lists its categories
FallbackCategoryOrder ==
  << "karma", "yoga", "truth", "peace", "dharma", "wisdom", "devotion", "meditation" >>

Digits == << "1", "2", "3", "4", "5", "6", "7", "8", "9" >>

CategoryLetter(c) ==
  CASE c = "karma" -> "k"
    [] c = "yoga" -> "y"
    [] c = "truth" -> "t"
    [] c = "peace" -> "p"
    [] c = "dharma" -> "d"
    [] c = "wisdom" -> "w"
    [] c = "devotion" -> "v"
    [] OTHER -> "m"

\* an AIGeneratedQuote
Quote(sh, mh, me, src, cat) ==
  [shlok |-> sh, meaning_hindi |-> mh, meaning_english |-> me, source |-> src,
   category |-> cat]

\* the literal table of getFallbackQuote: FallbackPerCategory entries per
\* category, every mandatory field non-empty
fallbackQuotes ==
  [i \in 1 .. (Len(FallbackCategoryOrder) * FallbackPerCategory) |->
     LET c == FallbackCategoryOrder[((i - 1) \div FallbackPerCategory) + 1]
         n == Digits[((i - 1) % FallbackPerCategory) + 1]
     IN Quote(<< CategoryLetter(c), n >>, << "h", CategoryLetter(c), n >>,
              << "e", CategoryLetter(c), n >>, << "G" >>, c)]


(***************************************************************************)
(* The backing store.  quotes and daily_logs are sets of rows.             *)
(***************************************************************************)
VARIABLES
  now,          \* wall clock, in slots
  hostOffset,   \* timezone of the node process, slots east of UTC
  uniqueShlok,  \* whether the deployed quotes table carries unique_shlok
  quotes,       \* table quotes
  daily_logs,   \* table daily_logs
  nextId,       \* next identifier gen_random_uuid() hands out
  call,         \* per caller: position and locals of the running call
  faultsLeft,   \* store faults the environment may still inject
  generations,  \* calls that went past the existence check so far
  lastRead,     \* the latest answer of the read API
  ai            \* the latest call of an aiService function: input and result

vars == << now, hostOffset, uniqueShlok, quotes, daily_logs, nextId, call,
           faultsLeft, generations, lastRead, ai >>

\* the null a lookup answers when it finds nothing
Null == [id |-> 0]

\* no aiService function has been called on its own
NoAI == [op |-> "none"]

\* a row of quotes
QuoteRow(id, q, ts) ==
  [id |-> id, shlok |-> q.shlok, meaning_hindi |-> q.meaning_hindi,
   meaning_english |-> q.meaning_english, source |-> q.source,
   category |-> q.category, created_at |-> ts]

\* a row of daily_logs
LogRow(qid, d, ts) == [quote_id |-> qid, date |-> d, created_at |-> ts]

\* a date argument of the read API: a valid YYYY-MM-DD string for day ord,
\* or an invalid string that sorts like ord in the lexical order of strings
DateArg(d) == [valid |-> TRUE, ord |-> d]
InvalidLow == [valid |-> FALSE, ord |-> 0 - 1]
InvalidHigh == [valid |-> FALSE, ord |-> MaxDay + 5]
DateArgs == {DateArg(d) : d \in Dates} \cup {InvalidLow, InvalidHigh}

\* the embedded resource quotes(...) of a daily_logs row
joined(qs, row) ==
  IF \E q \in qs : q.id = row.quote_id
    THEN CHOOSE q \in qs : q.id = row.quote_id
    ELSE Null

\* rows of dl kept by .order(date, descending).limit(n)
recentRows(dl, n) ==
  {r \in dl : Cardinality({r2 \in dl : r2.date > r.date}) < n}

\* variant of the upsert: a plain insert into a table without UNIQUE(date)
upsertOnDate_insert(dl, row) == dl \cup {row}

\* variant of the upsert: onConflict names quote_id instead of date
upsertOnDate_onQuoteId(dl, row) == {r \in dl : r.quote_id # row.quote_id} \cup {row}

\* INSERT INTO daily_logs ... ON CONFLICT (date) DO UPDATE: the row of that
\* date is replaced, any other row is kept
upsertOnDate(dl, row) == {r \in dl : r.date # row.date} \cup {row}

\* variant of the delete: the filter matches no row
deleteQuote_noRow(qs, id) == qs

\* DELETE FROM quotes WHERE id = ..., with ON DELETE CASCADE on daily_logs
deleteQuote(qs, id) == {q \in qs : q.id # id}
cascadeLogs(dl, id) == {r \in dl : r.quote_id # id}

\* whether inserting shlok sh violates unique_shlok
violatesUniqueShlok(qs, sh) == uniqueShlok /\ \E q \in qs : q.shlok = sh

(***************************************************************************)
(* quoteService: the read side.                                            *)
(***************************************************************************)
\* variant of getQuoteByDate: the gate also refuses today (>= for >)
getQuoteByDate_refusesToday(qs, dl, t, arg, dbError) ==
  IF arg.ord >= utcDate(t) THEN Null
  ELSE IF dbError \/ ~arg.valid THEN Null
  ELSE LET rows == {r \in dl : r.date = arg.ord}
       IN IF rows = {} THEN Null
          ELSE joined(qs, CHOOSE r \in rows :
                            \A r2 \in rows : r2.created_at <= r.created_at)

\* variant of getQuoteByDate: the comparison with today is left out
getQuoteByDate_ungated(qs, dl, t, arg, dbError) ==
  IF dbError \/ ~arg.valid THEN Null
  ELSE LET rows == {r \in dl : r.date = arg.ord}
       IN IF rows = {} THEN Null
          ELSE joined(qs, CHOOSE r \in rows :
                            \A r2 \in rows : r2.created_at <= r.created_at)

\* getQuoteByDate(date) at instant t; dbError says the query answered an error
getQuoteByDate(qs, dl, t, arg, dbError) ==
  IF arg.ord > utcDate(t) THEN Null
  ELSE IF dbError \/ ~arg.valid THEN Null
  ELSE LET rows == {r \in dl : r.date = arg.ord}
       IN IF rows = {} THEN Null
          ELSE joined(qs, CHOOSE r \in rows :
                            \A r2 \in rows : r2.created_at <= r.created_at)

\* variant of getTodayQuote: today is taken one day early
getTodayQuote_dayEarly(qs, dl, t, dbError) ==
  getQuoteByDate(qs, dl, t, DateArg(utcDate(t) - 1), dbError)

\* getTodayQuote()
getTodayQuote(qs, dl, t, dbError) ==
  getQuoteByDate(qs, dl, t, DateArg(utcDate(t)), dbError)

\* getQuoteForDate(date)
getQuoteForDate(qs, dl, t, arg, dbError) ==
  IF arg.ord > utcDate(t) THEN Null ELSE getQuoteByDate(qs, dl, t, arg, dbError)

\* today.setHours(0, 0, 0, 0): local midnight of the host, as an instant
localMidnight(t, off) == ((t + off) \div SlotsPerDay) * SlotsPerDay - off

\* getQuoteById(id): the record only when its date lies before local midnight
getQuoteById(qs, dl, t, off, id) ==
  LET rows == {r \in dl : r.quote_id = id}
  IN IF Cardinality(rows) # 1 THEN Null
     ELSE LET row == CHOOSE r \in rows : TRUE
          IN IF row.date * SlotsPerDay >= localMidnight(t, off) THEN Null
             ELSE joined(qs, row)

\* getAvailableDates(limit)
getAvailableDates(dl, t, limit) ==
  {r.date : r \in recentRows({r \in dl : r.date <= utcDate(t)}, limit)}

\* getRecentQuotes(limit): pairs of date and record
getRecentQuotes(qs, dl, t, limit) ==
  {[date |-> r.date, quote |-> joined(qs, r)] :
     r \in recentRows({r \in dl : r.date <= utcDate(t)}, limit)}

\* getAllQuotes(limit, offset): publications before the UTC date of the host's
\* local midnight; the page is taken over all of them
getAllQuotes(qs, dl, t, off) ==
  {[date |-> r.date, quote |-> joined(qs, r)] :
     r \in {r \in dl : r.date < utcDate(localMidnight(t, off))}}


(***************************************************************************)
(* aiService: history sample, uniqueness check, category balancer,         *)
(* response parsing, fallback table.                                       *)
(***************************************************************************)
\* getRecentlyUsedQuotes(limit): shloks of the limit latest publications,
\* falsy ones filtered out; an error answer of the store gives []
getRecentlyUsedQuotes(qs, dl, limit, dbError) ==
  IF dbError THEN {}
  ELSE {sh \in {joined(qs, r).shlok : r \in {r2 \in recentRows(dl, limit) :
                                               joined(qs, r2) # Null}} :
          sh # Empty}

\* the predicate of recentQuotes.some(...) in checkQuoteUniqueness
similarShlok(quote, shlok) ==
  \/ trim(toLowerCase(quote)) = trim(toLowerCase(shlok))
  \/ includes(toLowerCase(quote), toLowerCase(shlok))
  \/ includes(toLowerCase(shlok), toLowerCase(quote))

\* checkQuoteUniqueness(shlok) over the fetched sample
checkQuoteUniqueness(shlok, recentQuotes) ==
  ~ \E quote \in recentQuotes : similarShlok(quote, shlok)

\* categoryDistribution of getQuoteUsageStats(): occurrences of category c
\* among the 100 latest publications
categoryCount(qs, dl, c, dbError) ==
  IF dbError THEN 0
  ELSE Cardinality({r \in recentRows(dl, 100) : joined(qs, r) # Null
                                               /\ joined(qs, r).category = c})

\* variant of the forEach: a category with an equal count replaces the best
RECURSIVE leastUsedUpTo_lastWins(_, _, _, _)
leastUsedUpTo_lastWins(qs, dl, n, dbError) ==
  IF n = 1 THEN QUOTE_CATEGORIES[1]
  ELSE LET best == leastUsedUpTo_lastWins(qs, dl, n - 1, dbError)
       IN IF categoryCount(qs, dl, QUOTE_CATEGORIES[n], dbError)
               <= categoryCount(qs, dl, best, dbError)
            THEN QUOTE_CATEGORIES[n]
            ELSE best

\* the forEach of getLeastUsedCategory over QUOTE_CATEGORIES[1..n]
RECURSIVE leastUsedUpTo(_, _, _, _)
leastUsedUpTo(qs, dl, n, dbError) ==
  IF n = 1 THEN QUOTE_CATEGORIES[1]
  ELSE LET best == leastUsedUpTo(qs, dl, n - 1, dbError)
       IN IF categoryCount(qs, dl, QUOTE_CATEGORIES[n], dbError)
               < categoryCount(qs, dl, best, dbError)
            THEN QUOTE_CATEGORIES[n]
            ELSE best

\* getLeastUsedCategory()
getLeastUsedCategory(qs, dl, dbError) ==
  leastUsedUpTo(qs, dl, Len(QUOTE_CATEGORIES), dbError)

\* A response of the completion capability.  form says what the text holds:
\* a JSON object ("json"), Label: value lines ("text"), or neither ("garbage");
\* the fields are the raw values found there, Empty when missing.
Response(form, sh, mh, me, src, cat) ==
  [form |-> form, shlok |-> sh, meaning_hindi |-> mh, meaning_english |-> me,
   source |-> src, category |-> cat]

\* the answer of a parser that throws
ParseError == [shlok |-> Empty, meaning_hindi |-> Empty, meaning_english |-> Empty,
               source |-> Empty, category |-> "parse-error"]

UnknownScripture == << "U" >>

\* parseTextFormatResponse(response): label lines, each value trimmed, source
\* defaulted, all four required after trimming
parseTextFormatResponse(r) ==
  IF r.form # "text" THEN ParseError
  ELSE LET sh == trim(r.shlok)
           mh == trim(r.meaning_hindi)
           me == trim(r.meaning_english)
           src == IF trim(r.source) = Empty THEN UnknownScripture ELSE trim(r.source)
       IN IF sh = Empty \/ mh = Empty \/ me = Empty \/ src = Empty
            THEN ParseError
            ELSE Quote(sh, mh, me, src, r.category)

\* parseAIResponse(response): JSON first (fields required before trimming,
\* trimmed afterwards), the label-line parser when that throws
parseAIResponse(r) ==
  IF r.form = "json" /\ r.shlok # Empty /\ r.meaning_hindi # Empty
       /\ r.meaning_english # Empty /\ r.source # Empty
    THEN Quote(trim(r.shlok), trim(r.meaning_hindi), trim(r.meaning_english),
               trim(r.source), r.category)
    ELSE parseTextFormatResponse(r)

\* the responses the completion capability gives in this model
AIResponses ==
  { Response("json", << "a", "b" >>, << "h", "1" >>, << "e", "1" >>, << "V" >>, "peace"),
    Response("garbage", Empty, Empty, Empty, Empty, NoCategory) }

\* getFallbackQuote(), after its two reads: the entries it may select for
\* category cat when the history sample is recentQuotes
fallbackChoices(cat, recentQuotes) ==
  LET all == {fallbackQuotes[i] : i \in DOMAIN fallbackQuotes}
      availableQuotes ==
        {q \in all : ~ \E recent \in recentQuotes :
                          \/ includes(toLowerCase(recent), toLowerCase(q.shlok))
                          \/ includes(toLowerCase(q.shlok), toLowerCase(recent))}
      categoryQuotes == {q \in availableQuotes : q.category = cat}
      quotesToUse == IF categoryQuotes # {} THEN categoryQuotes ELSE availableQuotes
      finalQuotes == IF quotesToUse # {} THEN quotesToUse ELSE all
  IN {[q EXCEPT !.category = cat] : q \in finalQuotes}

(***************************************************************************)
(* quoteService: timestamps.                                               *)
(***************************************************************************)
\* get6AMISTTimestamp(dateString): new Date(y, m - 1, d, 6) is 06:00 in the
\* host's timezone; 5.5 hours are subtracted from that instant
get6AMISTTimestamp(d, off) == (d * SlotsPerDay + SixAM - off) - ISTOffset


(***************************************************************************)
(* Callers.  A caller is idle, or inside generateDailyQuote /              *)
(* checkAndGenerateTodayQuote / generateQuoteManually.                     *)
(***************************************************************************)
NoCand == Quote(Empty, Empty, Empty, Empty, NoCategory)

IdleCall ==
  [pc |-> "idle",        \* position of the call
   trigger |-> "none",   \* scheduler (cron or startup check) or manual
   should |-> "none",    \* answer of shouldGenerateQuoteForToday
   sawPub |-> FALSE,     \* whether today's publication existed at that lookup
   lookup |-> "none",    \* how that lookup ended: ok, error or throw
   today |-> 0,          \* const today of generateAndStoreQuote
   attempt |-> 1,        \* 2 after a unique_shlok violation
   aiTry |-> 1,          \* 2 inside generateQuoteWithAIRetry
   cand |-> NoCand,      \* aiQuote / newAiQuote
   fbCat |-> NoCategory, \* category of getFallbackQuote
   newQuote |-> Null,    \* the row this call inserted
   existing |-> Null,    \* existingQuote of the conflict branch
   linkDate |-> 0 - 1,   \* date under which logQuoteForToday linked
   result |-> Null,      \* the returned record
   error |-> "none",     \* the raised error
   aiCalls |-> 0, inserts |-> 0, upserts |-> 0, deletes |-> 0,
   genCalls |-> 0,       \* requests sent by the running generateQuoteWithAI
   nonUnique |-> 0,      \* candidates it found not unique
   aiParsed |-> FALSE,   \* whether any request of this call gave a usable answer
   existed |-> 0,        \* id published for today when the call began
   prior |-> {},         \* ids returned for today by calls finished before
   overlap |-> FALSE]    \* whether another call ran during this one

\* positions outside generateAndStoreQuote
Outside == {"idle", "gen", "done", "failed"}

Finished == {"idle", "done", "failed"}

\* faults the store may answer with at this moment
Faults(kinds) == IF faultsLeft > 0 THEN {"none"} \cup kinds ELSE {"none"}

spend(f) == IF f = "none" THEN faultsLeft ELSE faultsLeft - 1

\* id of the record published for date d, 0 when there is none
publishedId(dl, d) ==
  IF \E r \in dl : r.date = d THEN (CHOOSE r \in dl : r.date = d).quote_id ELSE 0

\* variant of shouldGenerateQuoteForToday: a thrown lookup is passed on
shouldGenerate_rethrows(lookup, todayQuote) ==
  IF lookup = "throw" THEN "raised"
  ELSE IF todayQuote = Null THEN "yes" ELSE "no"

\* shouldGenerateQuoteForToday(): lookup is how getTodayQuote ended and
\* todayQuote what it returned; a thrown lookup is caught and answers true
shouldGenerateQuoteForToday(lookup, todayQuote) ==
  IF lookup = "throw" THEN "yes"
  ELSE IF todayQuote = Null THEN "yes" ELSE "no"

Init ==
  /\ now = 1
  \* the node process runs in UTC (SpecRead also has a host in IST)
  /\ hostOffset = 0
  /\ uniqueShlok \in BOOLEAN
  /\ nextId = 2
  \* supabase-setup.sql: the sample quote, linked to the database's
  \* CURRENT_DATE, or an empty store
  /\ \E seed \in {0 - 1, 0} :
       IF seed < 0
         THEN quotes = {} /\ daily_logs = {}
         ELSE /\ quotes = {QuoteRow(1, fallbackQuotes[1], now)}
              /\ daily_logs = {LogRow(1, seed, now)}
  /\ call = [p \in Callers |-> IdleCall]
  /\ faultsLeft = 0
  /\ generations = 0
  /\ lastRead = [op |-> "none", arg |-> DateArg(0), at |-> 0, answer |-> {}]
  /\ ai = NoAI

\* variant of the trigger functions: the scheduler passes the error on too
thrownToCaller_uncaught(trigger, error) == error

\* what the caller of a trigger function sees of an error raised inside it:
\* generateDailyQuote and checkAndGenerateTodayQuote catch and log it,
\* generateQuoteManually logs it and throws it again
thrownToCaller(trigger, error) ==
  IF trigger = "manual" THEN error ELSE "none"

\* an error that left the trigger function of call record c; out of the cron
\* callback it would be an unhandled rejection, which ends the node process
escaped(c) == c.pc = "failed" /\ thrownToCaller(c.trigger, c.error) # "none"

\* generateDailyQuote / checkAndGenerateTodayQuote up to the answer of
\* shouldGenerateQuoteForToday
ShouldGenerate(p) ==
  /\ p = "scheduler"
  /\ call[p].pc \in Finished
  /\ ~escaped(call[p])
  /\ \E trg \in {"cron", "startup"}, f \in Faults({"error", "throw"}) :
       /\ trg = "cron" => now % SlotsPerDay = SixAM - ISTOffset
       /\ LET todayQuote == getTodayQuote(quotes, daily_logs, now, f = "error")
              answer == shouldGenerateQuoteForToday(f, todayQuote)
          IN call' = [call EXCEPT ![p] =
                 [IdleCall EXCEPT !.pc = IF answer = "yes" THEN "gen" ELSE "idle",
                                  !.trigger = "scheduler",
                                  !.should = answer,
                                  !.sawPub = publishedId(daily_logs, utcDate(now)) # 0,
                                  !.lookup = IF f = "none" THEN "ok" ELSE f,
                                  !.today = call[p].today,
                                  !.result = call[p].result,
                                  !.overlap = call[p].overlap]]
       /\ faultsLeft' = spend(f)
  /\ UNCHANGED << ai, now, hostOffset, uniqueShlok, quotes, daily_logs, nextId, generations, lastRead >>

\* generateAndStoreQuote(), lines 228-244: today, then the existence check
GenBegin(p) ==
  /\ \/ call[p].pc = "gen"
     \/ p = "manual" /\ call[p].pc \in Finished
  /\ \E f \in Faults({"error", "throw"}) :
       LET today == utcDate(now)
           todayQuote == getTodayQuote(quotes, daily_logs, now, f = "error")
           others == {q \in Callers \ {p} : call[q].pc \notin Outside}
           fresh == [IdleCall EXCEPT
                       !.trigger = IF p = "manual" THEN "manual" ELSE call[p].trigger,
                       !.today = today,
                       !.existed = publishedId(daily_logs, today),
                       !.prior = {call[q].result.id :
                                    q \in {c \in Callers : /\ call[c].result # Null
                                                           /\ call[c].today = today
                                                           /\ ~call[c].overlap}},
                       !.overlap = others # {}]
       IN /\ (f = "throw" \/ todayQuote # Null) \/ generations < MaxGenerations
          /\ generations' = IF f = "throw" \/ todayQuote # Null
                              THEN generations ELSE generations + 1
          /\ call' = [q \in Callers |->
                        IF q = p
                          THEN IF f = "throw"
                                 THEN [fresh EXCEPT !.pc = "failed", !.error = "lookup"]
                               ELSE IF todayQuote # Null
                                 THEN [fresh EXCEPT !.pc = "done", !.result = todayQuote]
                               ELSE [fresh EXCEPT !.pc = "ai"]
                        ELSE IF q \in others
                          THEN [call[q] EXCEPT !.overlap = TRUE]
                          ELSE call[q]]
          /\ faultsLeft' = spend(f)
  /\ UNCHANGED << ai, now, hostOffset, uniqueShlok, quotes, daily_logs, nextId, lastRead >>


\* variant of the uniqueness handling: the retry retries as well
afterUniqueness_retryAgain(c, isUnique) ==
  IF isUnique THEN [c EXCEPT !.pc = "insert"]
  ELSE [c EXCEPT !.pc = "retry", !.cand = NoCand, !.nonUnique = @ + 1]

\* where a candidate goes after checkQuoteUniqueness: kept, retried once,
\* or replaced by the fallback table
afterUniqueness(c, isUnique) ==
  IF isUnique THEN [c EXCEPT !.pc = "insert"]
  ELSE IF c.aiTry = 1
    THEN [c EXCEPT !.pc = "retry", !.cand = NoCand, !.nonUnique = @ + 1]
  ELSE [c EXCEPT !.pc = "fallback", !.cand = NoCand, !.nonUnique = @ + 1]

\* what generateQuoteWithAI / generateQuoteWithAIRetry do with the outcome of
\* one request to the completion capability and with the store read that
\* follows it.  outcome is "fail" (the client cannot be built, the request
\* fails or it answers no content: all are caught alike) or "response"; a
\* parsed response goes to checkQuoteUniqueness over the fetched sample,
\* anything else to getFallbackQuote.
afterCompletion(c, outcome, r, recentQuotes) ==
  IF outcome = "response" /\ parseAIResponse(r) # ParseError
    THEN afterUniqueness([c EXCEPT !.cand = parseAIResponse(r), !.aiCalls = @ + 1,
                                   !.genCalls = @ + 1, !.aiParsed = TRUE],
                         checkQuoteUniqueness(parseAIResponse(r).shlok, recentQuotes))
    ELSE [c EXCEPT !.pc = "fallback", !.aiCalls = @ + 1, !.genCalls = @ + 1]

\* outcomes of one request to the completion capability
Completions ==
  {[outcome |-> "fail", response |-> CHOOSE x \in AIResponses : TRUE]}
    \cup {[outcome |-> "response", response |-> r] : r \in AIResponses}

\* variant of the catch of generateAndStoreQuote: a rejected generator is
\* logged and the fallback table is used
afterRejection_usesFallback(c) == [c EXCEPT !.pc = "fallback"]

\* generateAndStoreQuote(), lines 248 and 272 with the catch of 339-342:
\* await generateQuoteWithAI() stands inside the try block, whose catch logs
\* the error and throws it again. c.error holds the generator's rejection.
afterRejection(c) == [c EXCEPT !.pc = "failed"]

\* generateQuoteWithAI(), lines 96-149: one request with temperature 0.9 (the
\* prompt's two history reads change nothing), then the uniqueness read. The
\* function catches every error of its own; "reject" is a generator that
\* rejects all the same, as the one the test suite puts in its place.
GenerateQuoteWithAI(p) ==
  /\ call[p].pc = "ai"
  /\ \E k \in Completions, f \in Faults({"error", "reject"}) :
       /\ (f = "error" => k.outcome = "response" /\ parseAIResponse(k.response) # ParseError)
       /\ (f = "reject" => k.outcome = "fail")
       /\ call' = [call EXCEPT ![p] =
            IF f = "reject"
              THEN afterRejection([@ EXCEPT !.error = "ai"])
              ELSE afterCompletion([@ EXCEPT !.aiTry = 1, !.genCalls = 0, !.nonUnique = 0],
                      k.outcome, k.response,
                      getRecentlyUsedQuotes(quotes, daily_logs, 30, f = "error"))]
       /\ faultsLeft' = spend(f)
  /\ UNCHANGED << ai, now, hostOffset, uniqueShlok, quotes, daily_logs, nextId, generations, lastRead >>

\* generateQuoteWithAIRetry(), lines 152-202: one request with temperature
\* 1.0, then the uniqueness read
GenerateQuoteWithAIRetry(p) ==
  /\ call[p].pc = "retry"
  /\ \E k \in Completions, f \in Faults({"error"}) :
       /\ (f = "error" => k.outcome = "response" /\ parseAIResponse(k.response) # ParseError)
       /\ call' = [call EXCEPT ![p] =
            afterCompletion([@ EXCEPT !.aiTry = 2], k.outcome, k.response,
                 getRecentlyUsedQuotes(quotes, daily_logs, 30, f = "error"))]
       /\ faultsLeft' = spend(f)
  /\ UNCHANGED << ai, now, hostOffset, uniqueShlok, quotes, daily_logs, nextId, generations, lastRead >>

\* getFallbackQuote(), line 368: the category
FallbackCategory(p) ==
  /\ call[p].pc = "fallback"
  /\ \E f \in Faults({"error"}) :
       /\ call' = [call EXCEPT ![p].pc = "fbpick",
                               ![p].fbCat = getLeastUsedCategory(quotes, daily_logs,
                                                                 f = "error")]
       /\ faultsLeft' = spend(f)
  /\ UNCHANGED << ai, now, hostOffset, uniqueShlok, quotes, daily_logs, nextId, generations, lastRead >>

\* getFallbackQuote(), lines 557-583: history sample, filter, random entry
FallbackPick(p) ==
  /\ call[p].pc = "fbpick"
  /\ \E f \in Faults({"error"}) :
       /\ \E q \in fallbackChoices(call[p].fbCat,
                     getRecentlyUsedQuotes(quotes, daily_logs, 20, f = "error")) :
            call' = [call EXCEPT ![p].pc = "insert", ![p].cand = q,
                                 ![p].fbCat = NoCategory]
       /\ faultsLeft' = spend(f)
  /\ UNCHANGED << ai, now, hostOffset, uniqueShlok, quotes, daily_logs, nextId, generations, lastRead >>

\* the CHECK constraint on quotes.category
categoryAllowed(cat) ==
  cat = NoCategory \/ \E i \in DOMAIN QUOTE_CATEGORIES : QUOTE_CATEGORIES[i] = cat

\* variant of the insert: a second unique_shlok violation regenerates as well
InsertQuote_regeneratesTwice(p) ==
  /\ call[p].pc = "insert"
  /\ \E f \in Faults({"error"}) :
       LET c == call[p]
           sixAMIST == get6AMISTTimestamp(c.today, hostOffset)
           row == QuoteRow(nextId, c.cand, sixAMIST)
       IN /\ IF f = "error" \/ ~categoryAllowed(c.cand.category)
               THEN /\ call' = [call EXCEPT ![p] =
                          [@ EXCEPT !.pc = "failed", !.error = "insert",
                                    !.cand = NoCand, !.inserts = @ + 1]]
                    /\ UNCHANGED << quotes, nextId >>
             ELSE IF violatesUniqueShlok(quotes, c.cand.shlok)
               THEN /\ call' = [call EXCEPT ![p] =
                          IF c.attempt <= 2
                            THEN [@ EXCEPT !.pc = "ai", !.attempt = c.attempt + 1, !.aiTry = 1,
                                           !.cand = NoCand, !.inserts = @ + 1]
                            ELSE [@ EXCEPT !.pc = "failed", !.error = "insert-retry",
                                           !.cand = NoCand, !.inserts = @ + 1]]
                    /\ UNCHANGED << quotes, nextId >>
             ELSE /\ quotes' = quotes \cup {row}
                  /\ nextId' = nextId + 1
                  /\ call' = [call EXCEPT ![p] =
                        [@ EXCEPT !.pc = "link", !.newQuote = row,
                                  !.cand = NoCand, !.inserts = @ + 1]]
          /\ faultsLeft' = spend(f)
  /\ UNCHANGED << ai, now, hostOffset, uniqueShlok, daily_logs, generations, lastRead >>

\* generateAndStoreQuote(), lines 250-315: insert into quotes; a unique_shlok
\* violation regenerates once, any other error raises
InsertQuote(p) ==
  /\ call[p].pc = "insert"
  /\ \E f \in Faults({"error"}) :
       LET c == call[p]
           sixAMIST == get6AMISTTimestamp(c.today, hostOffset)
           row == QuoteRow(nextId, c.cand, sixAMIST)
       IN /\ IF f = "error" \/ ~categoryAllowed(c.cand.category)
               THEN /\ call' = [call EXCEPT ![p] =
                          [@ EXCEPT !.pc = "failed", !.error = "insert",
                                    !.cand = NoCand, !.inserts = @ + 1]]
                    /\ UNCHANGED << quotes, nextId >>
             ELSE IF violatesUniqueShlok(quotes, c.cand.shlok)
               THEN /\ call' = [call EXCEPT ![p] =
                          IF c.attempt = 1
                            THEN [@ EXCEPT !.pc = "ai", !.attempt = 2, !.aiTry = 1,
                                           !.cand = NoCand, !.inserts = @ + 1]
                            ELSE [@ EXCEPT !.pc = "failed", !.error = "insert-retry",
                                           !.cand = NoCand, !.inserts = @ + 1]]
                    /\ UNCHANGED << quotes, nextId >>
             ELSE /\ quotes' = quotes \cup {row}
                  /\ nextId' = nextId + 1
                  /\ call' = [call EXCEPT ![p] =
                        [@ EXCEPT !.pc = "link", !.newQuote = row,
                                  !.cand = NoCand, !.inserts = @ + 1]]
          /\ faultsLeft' = spend(f)
  /\ UNCHANGED << ai, now, hostOffset, uniqueShlok, daily_logs, generations, lastRead >>

\* variant of the link step: an error of the upsert is logged and the
\* inserted record is returned all the same
LogQuoteForToday_swallows(p) ==
  /\ call[p].pc = "link"
  /\ \E f \in Faults({"error", "duplicate"}) :
       LET c == call[p]
           today == utcDate(now)
           row == LogRow(c.newQuote.id, today, c.newQuote.created_at)
       IN /\ IF f = "none"
               THEN /\ daily_logs' = upsertOnDate(daily_logs, row)
                    /\ call' = [call EXCEPT ![p] =
                          [@ EXCEPT !.pc = "done", !.result = c.newQuote,
                                    !.linkDate = today, !.upserts = @ + 1]]
             ELSE /\ UNCHANGED daily_logs
                  /\ call' = [call EXCEPT ![p] =
                        IF f = "duplicate"
                          THEN [@ EXCEPT !.pc = "refetch", !.upserts = @ + 1]
                          ELSE [@ EXCEPT !.pc = "done", !.result = c.newQuote,
                                         !.upserts = @ + 1]]
          /\ faultsLeft' = spend(f)
  /\ UNCHANGED << ai, now, hostOffset, uniqueShlok, quotes, nextId, generations, lastRead >>

\* logQuoteForToday(quoteId, sixAMIST), lines 368-402, and its callers' try
\* blocks: today is read again, the row is upserted on date
LogQuoteForToday(p) ==
  /\ call[p].pc = "link"
  /\ \E f \in Faults({"error", "duplicate"}) :
       LET c == call[p]
           today == utcDate(now)
           row == LogRow(c.newQuote.id, today, c.newQuote.created_at)
       IN /\ IF f = "none"
               THEN /\ daily_logs' = upsertOnDate(daily_logs, row)
                    /\ call' = [call EXCEPT ![p] =
                          [@ EXCEPT !.pc = "done", !.result = c.newQuote,
                                    !.linkDate = today, !.upserts = @ + 1]]
             ELSE /\ UNCHANGED daily_logs
                  /\ call' = [call EXCEPT ![p] =
                        IF f = "duplicate"
                          THEN [@ EXCEPT !.pc = "refetch", !.upserts = @ + 1]
                          ELSE [@ EXCEPT !.pc = "failed", !.error = "log",
                                         !.upserts = @ + 1]]
          /\ faultsLeft' = spend(f)
  /\ UNCHANGED << ai, now, hostOffset, uniqueShlok, quotes, nextId, generations, lastRead >>

\* the conflict branch, lines 299-301 and 325-328: getTodayQuote() again
Refetch(p) ==
  /\ call[p].pc = "refetch"
  /\ \E f \in Faults({"error", "throw"}) :
       LET existingQuote == getTodayQuote(quotes, daily_logs, now, f = "error")
       IN /\ call' = [call EXCEPT ![p] =
                IF f = "throw" THEN [@ EXCEPT !.pc = "failed", !.error = "lookup"]
                ELSE IF existingQuote # Null
                  THEN [@ EXCEPT !.pc = "cleanup", !.existing = existingQuote]
                ELSE [@ EXCEPT !.pc = "failed", !.error = "log"]]
          /\ faultsLeft' = spend(f)
  /\ UNCHANGED << ai, now, hostOffset, uniqueShlok, quotes, daily_logs, nextId, generations, lastRead >>

\* variant of the cleanup: the delete names the existing record
Cleanup_deletesExisting(p) ==
  /\ call[p].pc = "cleanup"
  /\ quotes' = deleteQuote(quotes, call[p].existing.id)
  /\ daily_logs' = cascadeLogs(daily_logs, call[p].existing.id)
  /\ call' = [call EXCEPT ![p] =
        [@ EXCEPT !.pc = "done", !.result = call[p].existing,
                  !.existing = Null, !.deletes = @ + 1]]
  /\ UNCHANGED << ai, now, hostOffset, uniqueShlok, nextId, faultsLeft, generations,
                  lastRead >>

\* the conflict branch, lines 302-303 and 331-332: delete the inserted row
\* and return the existing one
Cleanup(p) ==
  /\ call[p].pc = "cleanup"
  /\ quotes' = deleteQuote(quotes, call[p].newQuote.id)
  /\ daily_logs' = cascadeLogs(daily_logs, call[p].newQuote.id)
  /\ call' = [call EXCEPT ![p] =
        [@ EXCEPT !.pc = "done", !.result = call[p].existing,
                  !.existing = Null, !.deletes = @ + 1]]
  /\ UNCHANGED << ai, now, hostOffset, uniqueShlok, nextId, faultsLeft, generations,
                  lastRead >>

\* the clock reaches the next marked instant; calls in flight stay where they
\* are, the records of calls that have ended are dropped
Tick ==
  /\ \E t \in Instants :
       /\ t > now
       /\ \A u \in Instants : u > now => t <= u
       /\ now' = t
  /\ call' = [p \in Callers |->
                IF call[p].pc \in Finished THEN IdleCall ELSE call[p]]
  /\ UNCHANGED << ai, hostOffset, uniqueShlok, quotes, daily_logs, nextId,
                  faultsLeft, generations, lastRead >>

Next ==
  \/ \E p \in Callers : ShouldGenerate(p)
  \/ \E p \in Callers : GenBegin(p)
  \/ \E p \in Callers : GenerateQuoteWithAI(p)
  \/ \E p \in Callers : GenerateQuoteWithAIRetry(p)
  \/ \E p \in Callers : FallbackCategory(p)
  \/ \E p \in Callers : FallbackPick(p)
  \/ \E p \in Callers : InsertQuote(p)
  \/ \E p \in Callers : LogQuoteForToday(p)
  \/ Tick

Spec == Init /\ [][Next]_vars

\* The program on a store that refuses nothing and has no unique_shlok
\* constraint, with every awaited step of a call that has begun completing:
\* a returned await resumes the async function. The clock and the manual
\* trigger are free.
InitLive == Init /\ uniqueShlok = FALSE

Proceed(p) ==
  /\ call[p].pc \notin Finished
  /\ \/ GenBegin(p)
     \/ GenerateQuoteWithAI(p)
     \/ GenerateQuoteWithAIRetry(p)
     \/ FallbackCategory(p)
     \/ FallbackPick(p)
     \/ InsertQuote(p)
     \/ LogQuoteForToday(p)

SpecLive == InitLive /\ [][Next]_vars /\ \A p \in Callers : WF_vars(Proceed(p))

\* The same program on a host whose local timezone is UTC or Asia/Kolkata.
InitHost ==
  /\ now = 1
  /\ hostOffset \in HostOffsets
  /\ uniqueShlok = FALSE
  /\ nextId = 2
  /\ quotes = {}
  /\ daily_logs = {}
  /\ call = [p \in Callers |-> IdleCall]
  /\ faultsLeft = 0
  /\ generations = 0
  /\ lastRead = [op |-> "none", arg |-> DateArg(0), at |-> 0, answer |-> {}]
  /\ ai = NoAI

SpecHost == InitHost /\ [][Next]_vars

\* The same program, at one instant of the clock, over a store that may
\* answer with errors: a read or a write may fail MaxFaults times in all,
\* and the upsert may report a duplicate key, which opens the conflict
\* branch.
InitFault ==
  /\ now = 1
  /\ hostOffset = 0
  /\ uniqueShlok \in BOOLEAN
  /\ nextId = 2
  /\ quotes = {}
  /\ daily_logs = {}
  /\ call = [p \in Callers |-> IdleCall]
  /\ faultsLeft = MaxFaults
  /\ generations = 0
  /\ lastRead = [op |-> "none", arg |-> DateArg(0), at |-> 0, answer |-> {}]
  /\ ai = NoAI

NextFault ==
  \/ \E p \in Callers : ShouldGenerate(p)
  \/ \E p \in Callers : GenBegin(p)
  \/ \E p \in Callers : GenerateQuoteWithAI(p)
  \/ \E p \in Callers : GenerateQuoteWithAIRetry(p)
  \/ \E p \in Callers : FallbackCategory(p)
  \/ \E p \in Callers : FallbackPick(p)
  \/ \E p \in Callers : InsertQuote(p)
  \/ \E p \in Callers : LogQuoteForToday(p)
  \/ \E p \in Callers : Refetch(p)
  \/ \E p \in Callers : Cleanup(p)

SpecFault == InitFault /\ [][NextFault]_vars

\* an awaited step of a call of p that has begun completes (each external
\* call returns or fails), the conflict branch included
ProceedFault(p) ==
  \/ Proceed(p)
  \/ call[p].pc \notin Finished /\ (Refetch(p) \/ Cleanup(p))

\* generateAndStoreQuote on its own: the scheduler has been answered that a
\* quote must be generated and makes one call, the manual trigger calls as
\* often as it likes; the store may fail MaxFaults times
InitCall ==
  /\ now = 1
  /\ hostOffset = 0
  /\ uniqueShlok \in BOOLEAN
  /\ nextId = 2
  /\ quotes = {}
  /\ daily_logs = {}
  /\ call = [p \in Callers |->
               IF p = "scheduler"
                 THEN [IdleCall EXCEPT !.pc = "gen", !.trigger = "scheduler",
                                       !.should = "yes", !.lookup = "ok"]
                 ELSE IdleCall]
  /\ faultsLeft = MaxFaults
  /\ generations = 0
  /\ lastRead = [op |-> "none", arg |-> DateArg(0), at |-> 0, answer |-> {}]
  /\ ai = NoAI

NextCall ==
  \/ \E p \in Callers : GenBegin(p)
  \/ \E p \in Callers : GenerateQuoteWithAI(p)
  \/ \E p \in Callers : GenerateQuoteWithAIRetry(p)
  \/ \E p \in Callers : FallbackCategory(p)
  \/ \E p \in Callers : FallbackPick(p)
  \/ \E p \in Callers : InsertQuote(p)
  \/ \E p \in Callers : LogQuoteForToday(p)
  \/ \E p \in Callers : Refetch(p)
  \/ \E p \in Callers : Cleanup(p)

\* fairness: while a call is in flight, an awaited step of some call in
\* flight completes
SpecCall ==
  InitCall /\ [][NextCall]_vars /\ WF_vars(\E p \in Callers : ProceedFault(p))

\* The program over several days on a store that may fail
SpecFaultDays == InitFault /\ [][NextFault \/ Tick]_vars

(***************************************************************************)
(* The read API over a store holding publications for any set of dates,    *)
(* past, present and future.                                               *)
(***************************************************************************)
\* a read by date answers a record or null: the set of date-record pairs
byDate(arg, q) == IF q = Null THEN {} ELSE {[date |-> arg.ord, quote |-> q]}

\* the record getQuoteById answers, with the date of its publication
byId(dl, id, q) ==
  IF q = Null THEN {}
  ELSE {[date |-> (CHOOSE r \in dl : r.quote_id = id).date, quote |-> q]}

InitRead ==
  /\ now = 1
  /\ hostOffset \in HostOffsets
  /\ uniqueShlok = FALSE
  /\ \E S \in SUBSET Dates :
       /\ quotes = {QuoteRow(d + 1, fallbackQuotes[d + 1],
                             get6AMISTTimestamp(d, 0)) : d \in S}
       /\ daily_logs = {LogRow(d + 1, d, get6AMISTTimestamp(d, 0)) : d \in S}
  /\ nextId = MaxDay + 3
  /\ call = [p \in Callers |-> IdleCall]
  /\ faultsLeft = 0
  /\ generations = 0
  /\ lastRead = [op |-> "none", arg |-> DateArg(0), at |-> 0, answer |-> {}]
  /\ ai = NoAI

\* what lastRead holds after a read
readAnswer(op, arg, answer) == [op |-> op, arg |-> arg, at |-> now, answer |-> answer]

ReadByDate ==
  /\ \E arg \in DateArgs :
       lastRead' = readAnswer("getQuoteByDate", arg,
           byDate(arg, getQuoteByDate(quotes, daily_logs, now, arg, FALSE)))
  /\ UNCHANGED << ai, now, hostOffset, uniqueShlok, quotes, daily_logs, nextId, call,
                  faultsLeft, generations >>

ReadForDate ==
  /\ \E arg \in DateArgs :
       lastRead' = readAnswer("getQuoteForDate", arg,
           byDate(arg, getQuoteForDate(quotes, daily_logs, now, arg, FALSE)))
  /\ UNCHANGED << ai, now, hostOffset, uniqueShlok, quotes, daily_logs, nextId, call,
                  faultsLeft, generations >>

ReadToday ==
  /\ lastRead' = readAnswer("getTodayQuote", DateArg(utcDate(now)),
         byDate(DateArg(utcDate(now)), getTodayQuote(quotes, daily_logs, now, FALSE)))
  /\ UNCHANGED << ai, now, hostOffset, uniqueShlok, quotes, daily_logs, nextId, call,
                  faultsLeft, generations >>

ReadById ==
  /\ \E id \in 1 .. (MaxDay + 2) :
       lastRead' = readAnswer("getQuoteById", DateArg(id),
           byId(daily_logs, id, getQuoteById(quotes, daily_logs, now, hostOffset, id)))
  /\ UNCHANGED << ai, now, hostOffset, uniqueShlok, quotes, daily_logs, nextId, call,
                  faultsLeft, generations >>

ReadAvailableDates ==
  /\ lastRead' = readAnswer("getAvailableDates", DateArg(0),
         {[date |-> d, quote |-> Null] : d \in getAvailableDates(daily_logs, now, 30)})
  /\ UNCHANGED << ai, now, hostOffset, uniqueShlok, quotes, daily_logs, nextId, call,
                  faultsLeft, generations >>

ReadRecentQuotes ==
  /\ lastRead' = readAnswer("getRecentQuotes", DateArg(0),
         getRecentQuotes(quotes, daily_logs, now, 10))
  /\ UNCHANGED << ai, now, hostOffset, uniqueShlok, quotes, daily_logs, nextId, call,
                  faultsLeft, generations >>

ReadAllQuotes ==
  /\ lastRead' = readAnswer("getAllQuotes", DateArg(0),
         getAllQuotes(quotes, daily_logs, now, hostOffset))
  /\ UNCHANGED << ai, now, hostOffset, uniqueShlok, quotes, daily_logs, nextId, call,
                  faultsLeft, generations >>

\* GET /today: the controller asks the service for today's publication and
\* answers it, or 404 (an empty answer) when there is none
GetTodayQuoteRoute ==
  /\ lastRead' = readAnswer("GET /today", DateArg(utcDate(now)),
         byDate(DateArg(utcDate(now)), getTodayQuote(quotes, daily_logs, now, FALSE)))
  /\ UNCHANGED << ai, now, hostOffset, uniqueShlok, quotes, daily_logs, nextId, call,
                  faultsLeft, generations >>

NextRead ==
  \/ GetTodayQuoteRoute
  \/ ReadByDate
  \/ ReadForDate
  \/ ReadToday
  \/ ReadById
  \/ ReadAvailableDates
  \/ ReadRecentQuotes
  \/ ReadAllQuotes
  \/ Tick

SpecRead == InitRead /\ [][NextRead]_vars

(***************************************************************************)
(* aiService functions called on their own, over a store with any history  *)
(* of publications.                                                        *)
(***************************************************************************)
\* records the history may hold: shloks that contain, are contained in or
\* equal other texts up to case and blanks, an entry of the fallback table,
\* and the record parseAIResponse returns for a JSON response whose shlok is
\* blank (its shlok is empty)
HistoryQuotes ==
  << Quote(<< "a" >>, << "h", "1" >>, << "e", "1" >>, << "V" >>, "karma"),
     Quote(<< "A", "B", " " >>, << "h", "2" >>, << "e", "2" >>, << "V" >>, "peace"),
     Quote(<< "a", "b", "c" >>, << "h", "3" >>, << "e", "3" >>, << "V" >>, "wisdom"),
     fallbackQuotes[1],
     Quote(Empty, << "h", "5" >>, << "e", "5" >>, << "V" >>, NoCategory) >>

\* shloks handed to checkQuoteUniqueness
Candidates ==
  { Empty, << "a" >>, << "a", "b" >>, << "b", "c" >>, << "a", "b", "c", "d" >>,
    << " ", "A", "B" >>, << "x" >> }

\* response texts handed to parseAIResponse
ParseInputs ==
  { Response(form, sh, mh, me, src, cat) :
      form \in {"json", "text"},
      sh \in {Empty, << " " >>, << "a" >>, << " ", "a", " " >>},
      mh \in {Empty, << " " >>, << "h" >>},
      me \in {<< " " >>, << "e" >>},
      src \in {Empty, << " " >>, << "V" >>},
      cat \in {"peace", NoCategory} }
    \cup {Response("garbage", Empty, Empty, Empty, Empty, NoCategory)}

InitAI ==
  /\ now = 1
  /\ hostOffset = 0
  /\ uniqueShlok = FALSE
  /\ \E h \in [Dates -> 0 .. Len(HistoryQuotes)] :
       LET S == {d \in Dates : h[d] # 0}
       IN /\ quotes = {QuoteRow(d + 1, HistoryQuotes[h[d]],
                                get6AMISTTimestamp(d, 0)) : d \in S}
          /\ daily_logs = {LogRow(d + 1, d, get6AMISTTimestamp(d, 0)) : d \in S}
  /\ nextId = MaxDay + 3
  /\ call = [p \in Callers |-> IdleCall]
  /\ faultsLeft = 0
  /\ generations = 0
  /\ lastRead = [op |-> "none", arg |-> DateArg(0), at |-> 0, answer |-> {}]
  /\ ai = NoAI

\* checkQuoteUniqueness(shlok); failed says that the history read failed
CheckQuoteUniqueness ==
  /\ ai = NoAI
  /\ \E shlok \in Candidates, failed \in BOOLEAN :
       ai' = [op |-> "checkQuoteUniqueness", shlok |-> shlok, failed |-> failed,
              result |-> checkQuoteUniqueness(shlok,
                            getRecentlyUsedQuotes(quotes, daily_logs, 30, failed))]
  /\ UNCHANGED << now, hostOffset, uniqueShlok, quotes, daily_logs, nextId, call,
                  faultsLeft, generations, lastRead >>

\* getLeastUsedCategory(); failed says that the read of getQuoteUsageStats
\* failed
GetLeastUsedCategory ==
  /\ ai = NoAI
  /\ \E failed \in BOOLEAN :
       ai' = [op |-> "getLeastUsedCategory", failed |-> failed,
              result |-> getLeastUsedCategory(quotes, daily_logs, failed)]
  /\ UNCHANGED << now, hostOffset, uniqueShlok, quotes, daily_logs, nextId, call,
                  faultsLeft, generations, lastRead >>

\* parseAIResponse(response)
ParseAIResponse ==
  /\ ai = NoAI
  /\ \E r \in ParseInputs :
       ai' = [op |-> "parseAIResponse", response |-> r, result |-> parseAIResponse(r)]
  /\ UNCHANGED << now, hostOffset, uniqueShlok, quotes, daily_logs, nextId, call,
                  faultsLeft, generations, lastRead >>

NextAI ==
  \/ CheckQuoteUniqueness
  \/ GetLeastUsedCategory
  \/ ParseAIResponse

SpecAI == InitAI /\ [][NextAI]_vars

(***************************************************************************)
(* generateQuoteWithAI called twice in a row, as aiService.test.ts does:   *)
(* quote1 is generated in the record of the first caller, quote2 in the    *)
(* record of the second, which starts when the first has returned.  A call *)
(* has returned when its record stands at "insert" with the quote in cand. *)
(***************************************************************************)
\* what the completion capability may answer to the test: the responses of
\* AIResponses, and well-formed JSON without a category, with a category
\* outside QUOTE_CATEGORIES, and with another shlok
TestCompletions ==
  Completions \cup
  {[outcome |-> "response", response |-> r] : r \in
     { Response("json", << "a", "b" >>, << "h", "1" >>, << "e", "1" >>, << "V" >>, NoCategory),
       Response("json", << "a", "b" >>, << "h", "1" >>, << "e", "1" >>, << "V" >>, "love"),
       Response("json", << "x" >>, << "h", "9" >>, << "e", "9" >>, << "V" >>, "yoga") }}

FirstCaller == "scheduler"

\* await generateQuoteWithAI() of the test: the first request and the
\* uniqueness read, lines 96-149
TestGenerate(p) ==
  /\ call[p].pc = "idle"
  /\ p = FirstCaller \/ call[FirstCaller].pc = "insert"
  /\ \E k \in TestCompletions :
       call' = [call EXCEPT ![p] =
          afterCompletion([@ EXCEPT !.pc = "ai", !.aiTry = 1], k.outcome, k.response,
                          getRecentlyUsedQuotes(quotes, daily_logs, 30, FALSE))]
  /\ UNCHANGED << ai, now, hostOffset, uniqueShlok, quotes, daily_logs, nextId,
                  faultsLeft, generations, lastRead >>

NextGen ==
  \/ \E p \in Callers : TestGenerate(p)
  \/ \E p \in Callers : GenerateQuoteWithAIRetry(p)
  \/ \E p \in Callers : FallbackCategory(p)
  \/ \E p \in Callers : FallbackPick(p)

SpecGen == InitAI /\ [][NextGen]_vars

TypeOK ==
  /\ now \in Instants
  /\ \A p \in Callers : call[p].pc \in
       {"idle", "gen", "ai", "retry", "fallback", "fbpick", "insert", "link",
        "refetch", "cleanup", "done", "failed"}


(***************************************************************************)
(* Properties.                                                             *)
(***************************************************************************)
\* rows of daily_logs for date d
publications(d) == {r \in daily_logs : r.date = d}

\* two callers whose calls began on the same date, found no publication and
\* ran at the same time
Raced(p, q) ==
  /\ p # q
  /\ call[p].overlap /\ call[q].overlap
  /\ call[p].today = call[q].today
  /\ call[p].existed = 0 /\ call[q].existed = 0

\* C1: in every reachable state there is at most one daily_logs row per
\* calendar date, whatever calls (scheduler tick, startup check, manual
\* trigger) have run and however they interleaved.
C1_OnePublicationPerDate ==
  \A r1 \in daily_logs, r2 \in daily_logs : r1.date = r2.date => r1 = r2

\* two racing calls have both linked their record under the same date
C1_Witness ==
  \E p \in Callers, q \in Callers :
    /\ Raced(p, q)
    /\ call[p].pc = "done" /\ call[q].pc = "done"
    /\ call[p].upserts = 1 /\ call[q].upserts = 1
    /\ call[p].linkDate = call[q].linkDate
    /\ Cardinality(publications(call[p].linkDate)) = 1

C3_SameIdentifier ==
  \A p \in Callers, q \in Callers :
    ( /\ Raced(p, q)
      /\ call[p].pc = "done" /\ call[q].pc = "done" )
    => call[p].result.id = call[q].result.id

\* C4: after all concurrent calls for a date have ended, no record inserted
\* by a call remains in quotes with no daily_logs row referencing it.
C4_NoOrphan ==
  \A p \in Callers, q \in Callers :
    ( /\ Raced(p, q)
      /\ call[p].pc \in {"done", "failed"} /\ call[q].pc \in {"done", "failed"} )
    => \A x \in quotes :
         x.id = call[p].newQuote.id => \E r \in daily_logs : r.quote_id = x.id

\* C5: a call that starts after another call for the same date has returned,
\* with no call running beside either of them, returns the identifier the
\* earlier call returned, and exactly one daily_logs row exists for the date.
C5_SequentialIdempotence ==
  \A p \in Callers :
    (call[p].pc = "done" /\ ~call[p].overlap /\ call[p].prior # {})
    => /\ \A id \in call[p].prior : call[p].result.id = id
       /\ Cardinality(publications(call[p].today)) = 1

\* the second of two sequential calls has returned; the first one generated
C5_Witness ==
  \E p \in Callers, q \in Callers :
    /\ p # q
    /\ call[p].pc = "done" /\ ~call[p].overlap
    /\ call[q].pc = "done" /\ ~call[q].overlap /\ call[q].upserts = 1
    /\ call[p].prior = {call[q].result.id}
    /\ call[p].result.id = call[q].result.id

\* C6: a call made while a publication for today exists returns that
\* record, sends no request to the completion capability and writes nothing
\* (no insert into quotes, no upsert of daily_logs, no delete).
C6_ShortCircuit ==
  \A p \in Callers :
    call[p].existed # 0
    => /\ call[p].pc = "done"
       /\ call[p].result.id = call[p].existed
       /\ call[p].aiCalls = 0 /\ call[p].inserts = 0
       /\ call[p].upserts = 0 /\ call[p].deletes = 0

\* a call has returned the record that was published when it began
C6_Witness ==
  \E p \in Callers :
    /\ call[p].existed # 0
    /\ call[p].pc = "done"
    /\ call[p].result.id = call[p].existed
    /\ \E x \in quotes : x = call[p].result


WellFormed(x) ==
  /\ x # Null
  /\ x.shlok # Empty /\ x.meaning_hindi # Empty
  /\ x.meaning_english # Empty /\ x.source # Empty

\* C8: when no request to the completion capability gives a usable answer
\* and the store answers every operation, generateAndStoreQuote does not
\* raise and the record it returns has non-empty shlok, meaning_hindi,
\* meaning_english and source.
C8_FallbackCompleteness ==
  \A p \in Callers :
    ~call[p].aiParsed
    => /\ call[p].pc # "failed"
       /\ (call[p].pc = "done" => WellFormed(call[p].result))

\* C9: one run of the generator sends at most 2 requests to the completion
\* capability: a first candidate that is not unique causes exactly one
\* retry, a second one is replaced by an entry of the fallback table without
\* a third request.
C9_RetryBound ==
  \A p \in Callers :
    /\ call[p].genCalls <= 2
    /\ call[p].pc = "retry" => (call[p].genCalls = 1 /\ call[p].nonUnique = 1)
    /\ (call[p].nonUnique = 2 /\ call[p].pc = "insert")
       => /\ call[p].genCalls = 2
          /\ \E i \in DOMAIN fallbackQuotes : fallbackQuotes[i].shlok = call[p].cand.shlok

\* two candidates of one run were found not unique and a fallback entry is
\* about to be inserted
C9_Witness ==
  \E p \in Callers :
    /\ call[p].nonUnique = 2 /\ call[p].pc = "insert" /\ call[p].genCalls = 2
    /\ \E i \in DOMAIN fallbackQuotes : fallbackQuotes[i].shlok = call[p].cand.shlok

\* C10: shouldGenerateQuoteForToday answers false when a publication for
\* today is found, true when none is found, true when the lookup fails, and
\* it never raises.
C10_ShouldGenerate ==
  \A p \in Callers :
    call[p].should # "none"
    => /\ call[p].should \in {"yes", "no"}
       /\ (call[p].lookup = "ok" /\ call[p].sawPub) => call[p].should = "no"
       /\ (call[p].lookup = "ok" /\ ~call[p].sawPub) => call[p].should = "yes"
       /\ call[p].lookup \in {"error", "throw"} => call[p].should = "yes"

\* the lookup threw while today's publication existed and the answer was true
C10_Witness ==
  \E p \in Callers :
    /\ call[p].should = "yes"
    /\ call[p].lookup = "throw"
    /\ call[p].sawPub


\* C11: when the link of the inserted record is refused as a duplicate of
\* the date and the re-fetch finds today's publication, the call does not
\* raise: it deletes the record it inserted and returns the existing one.
C11_ConflictCleanup ==
  [][\A p \in Callers :
       /\ ( /\ call[p].pc = "refetch" /\ call'[p].pc # "refetch"
            /\ faultsLeft' = faultsLeft
            /\ getTodayQuote(quotes, daily_logs, now, FALSE) # Null )
          => /\ call'[p].pc = "cleanup"
             /\ call'[p].existing = getTodayQuote(quotes, daily_logs, now, FALSE)
       /\ ( call[p].pc = "cleanup" /\ call'[p].pc # "cleanup" )
          => /\ call'[p].pc = "done"
             /\ call'[p].result = call[p].existing
             /\ call[p].newQuote \in quotes
             /\ \A x \in quotes' : x.id # call[p].newQuote.id
             /\ call'[p].result \in quotes' ]_vars

\* a call has ended in the conflict branch: its own record is gone and it
\* returned the record another call published
C11_Witness ==
  \E p \in Callers :
    /\ call[p].pc = "done" /\ call[p].deletes = 1 /\ call[p].inserts >= 1
    /\ call[p].result # Null /\ call[p].result.id # call[p].newQuote.id
    /\ call[p].result \in quotes
    /\ \A x \in quotes : x.id # call[p].newQuote.id

\* C13: a date that has a daily_logs row has one in every later state; no
\* step, the cleanup delete with its cascade included, removes the last row
\* of a date.
C13_AssociationKept ==
  [][\A d \in Dates : publications(d) # {} => publications(d)' # {}]_vars

\* a cleanup delete has run and the date still has its publication
C13_Witness ==
  \E p \in Callers :
    /\ call[p].deletes = 1 /\ call[p].pc = "done"
    /\ publications(call[p].today) # {}
    /\ \A r \in publications(call[p].today) : r.quote_id # call[p].newQuote.id


sixAMKolkata(d) == d * SlotsPerDay + SixAM - ISTOffset

\* C14: the created_at of the record a call inserts for date D, and of the
\* daily_logs row it links, is 06:00 Asia/Kolkata on D (00:30 UTC on D),
\* whatever the instant of the call and the timezone of the host.
C14_SixAMIST ==
  \A p \in Callers :
    call[p].newQuote # Null
    => /\ call[p].newQuote.created_at = sixAMKolkata(call[p].today)
       /\ \A r \in daily_logs :
            r.quote_id = call[p].newQuote.id
            => r.created_at = sixAMKolkata(call[p].today)

\* C15: the today of generateAndStoreQuote is the calendar date in
\* Asia/Kolkata at the instant of the call, at every instant of the day.
C15_TodayIsIST ==
  [][\A p \in Callers :
       ( /\ call[p].pc \in Finished \cup {"gen"}
         /\ call'[p].pc \in {"ai", "done", "failed"}
         /\ call'[p] # call[p]
         /\ now' = now )
       => call'[p].today = istDate(now)]_vars


\* C16: a GET /today request that finds no publication for today starts a
\* generateAndStoreQuote call.
C16_ReadTriggersPublish ==
  [][( /\ lastRead' # lastRead
       /\ lastRead'.op = "GET /today"
       /\ lastRead'.answer = {} )
     => \E p \in Callers : call'[p] # call[p]]_vars


C17_WitnessManual ==
  /\ call["manual"].pc = "failed"
  /\ thrownToCaller(call["manual"].trigger, call["manual"].error) = "insert-retry"


\* C18: when the scheduler (cron tick or startup check) has found no
\* publication for day d and begun generating, and no persistence operation
\* fails, a publication for day d eventually exists, whatever the completion
\* capability answers.
C18_EventuallyPublished ==
  \A d \in 0 .. MaxDay :
    ( /\ call["scheduler"].pc = "ai"
      /\ call["scheduler"].today = d
      /\ publications(d) = {} )
    ~> (publications(d) # {})

\* the same, for calls during which the date does not change
C18_PublishedWithinTheDay ==
  \A d \in 0 .. MaxDay :
    ( /\ call["scheduler"].pc = "ai"
      /\ call["scheduler"].today = d
      /\ publications(d) = {} )
    ~> (publications(d) # {} \/ utcDate(now) # d)


\* C19: when generateQuoteWithAI rejects, generateAndStoreQuote rejects with
\* that error, returns no record and has written nothing: no quotes row
\* inserted, no daily_logs row upserted, nothing deleted.
C19_RejectionPropagates ==
  \A p \in Callers :
    call[p].error = "ai"
    => /\ call[p].pc = "failed"
       /\ call[p].result = Null
       /\ call[p].newQuote = Null
       /\ call[p].upserts = 0
       /\ call[p].deletes = 0

C19_Witness ==
  \E p \in Callers :
    /\ call[p].pc = "failed"
    /\ call[p].error = "ai"
    /\ call[p].newQuote = Null
    /\ publications(call[p].today) = {}


\* C20: the shlok published for a date differs from the shlok published for
\* every other date; stated for the publications that carry the 06:00
\* Asia/Kolkata timestamp of their own date, the ones linked on the day they
\* were generated for.
C20_UniqueAcrossDates ==
  \A r1, r2 \in daily_logs :
    ( /\ r1.date # r2.date
      /\ r1.created_at = sixAMKolkata(r1.date)
      /\ r2.created_at = sixAMKolkata(r2.date)
      /\ joined(quotes, r1) # Null
      /\ joined(quotes, r2) # Null )
    => joined(quotes, r1).shlok # joined(quotes, r2).shlok


\* shloks of the publications, as the history read returns them
publishedShloks == {joined(quotes, r).shlok : r \in daily_logs}

\* the comparison the claim describes, case-insensitive
matches(candidate, entry) ==
  \/ includes(toLowerCase(entry), toLowerCase(candidate))
  \/ includes(toLowerCase(candidate), toLowerCase(entry))
  \/ trim(toLowerCase(candidate)) = trim(toLowerCase(entry))

\* C23: checkQuoteUniqueness(candidate) answers false exactly when the
\* candidate is contained in, contains or equals after trimming (case
\* ignored) some recently published shlok, and true when the history read
\* fails; history 'abc' with candidate 'abcd' gives false, and a first
\* candidate found not unique is retried once.
C23_UniquenessCheck ==
  /\ ai.op = "checkQuoteUniqueness"
     => ai.result = IF ai.failed THEN TRUE
                    ELSE ~ \E entry \in publishedShloks : matches(ai.shlok, entry)
  /\ ~ checkQuoteUniqueness(<< "a", "b", "c", "d" >>, {<< "a", "b", "c" >>})
  /\ afterUniqueness([IdleCall EXCEPT !.aiTry = 1], FALSE).pc = "retry"
  /\ afterUniqueness([IdleCall EXCEPT !.aiTry = 2], FALSE).pc = "fallback"

\* the same, comparing with the non-empty shloks only
C23_UniquenessCheckNonEmpty ==
  ai.op = "checkQuoteUniqueness"
  => ai.result = IF ai.failed THEN TRUE
                 ELSE ~ \E entry \in publishedShloks \ {Empty} : matches(ai.shlok, entry)


\* occurrences of category c among the publications
usage(c) ==
  Cardinality({r \in daily_logs : joined(quotes, r) # Null
                                  /\ joined(quotes, r).category = c})

\* position of category c in the declared order
position(c) == CHOOSE i \in DOMAIN QUOTE_CATEGORIES : QUOTE_CATEGORIES[i] = c

\* C24: getLeastUsedCategory returns one of the eight categories whose count
\* over the recent publications is minimal (0 for a category that does not
\* occur), and the first of these in the order of QUOTE_CATEGORIES.
C24_LeastUsedFirst ==
  (ai.op = "getLeastUsedCategory" /\ ~ai.failed)
  => /\ \E i \in DOMAIN QUOTE_CATEGORIES : QUOTE_CATEGORIES[i] = ai.result
     /\ \A i \in DOMAIN QUOTE_CATEGORIES :
          /\ usage(ai.result) <= usage(QUOTE_CATEGORIES[i])
          /\ usage(QUOTE_CATEGORIES[i]) = usage(ai.result) => position(ai.result) <= i

\* karma, peace and wisdom have been used, the answer is the fourth category
C24_Witness ==
  /\ ai.op = "getLeastUsedCategory" /\ ~ai.failed
  /\ usage("karma") = 1 /\ usage("peace") = 1 /\ usage("wisdom") = 1
  /\ ai.result = "devotion"

\* getLeastUsedCategory() answers c when the read of the statistics fails
LeastUsedOnFailure(c) ==
  /\ getLeastUsedCategory(quotes, daily_logs, TRUE) = c
  /\ ai' = [op |-> "getLeastUsedCategory", failed |-> TRUE, result |-> c]
  /\ UNCHANGED << now, hostOffset, uniqueShlok, quotes, daily_logs, nextId, call,
                  faultsLeft, generations, lastRead >>

\* C25: when the read of the usage statistics fails, every one of the eight
\* categories is a possible answer of getLeastUsedCategory.
C25_RandomOnFailure ==
  (ai.op = "getLeastUsedCategory" /\ ai.failed)
  => \A i \in DOMAIN QUOTE_CATEGORIES : ENABLED LeastUsedOnFailure(QUOTE_CATEGORIES[i])

\* what the code does instead: the answer is the first category
C25_FirstOnFailure ==
  (ai.op = "getLeastUsedCategory" /\ ai.failed) => ai.result = QUOTE_CATEGORIES[1]

\* C26: parseAIResponse returns a record whose shlok, meaning_hindi,
\* meaning_english and source are non-empty after trimming, or fails to
\* parse, for JSON responses and for label-line responses.
C26_ParsedFieldsNonEmpty ==
  (ai.op = "parseAIResponse" /\ ai.result # ParseError)
  => /\ trim(ai.result.shlok) # Empty
     /\ trim(ai.result.meaning_hindi) # Empty
     /\ trim(ai.result.meaning_english) # Empty
     /\ trim(ai.result.source) # Empty


\* C21: two generateQuoteWithAI calls in a row return quotes with different
\* shlok and different meanings, whichever path each call takes.
C21_ConsecutiveDiffer ==
  (\A p \in Callers : call[p].pc = "insert")
  => /\ call["scheduler"].cand.shlok # call["manual"].cand.shlok
     /\ call["scheduler"].cand.meaning_hindi # call["manual"].cand.meaning_hindi
     /\ call["scheduler"].cand.meaning_english # call["manual"].cand.meaning_english

\* C22: a quote generateQuoteWithAI returns has non-empty shlok,
\* meaning_hindi, meaning_english and source and a category that is one of
\* the eight of QUOTE_CATEGORIES, on the AI path and on the fallback path.
C22_ReturnedQuoteValid ==
  \A p \in Callers :
    call[p].pc = "insert"
    => /\ call[p].cand.shlok # Empty
       /\ call[p].cand.meaning_hindi # Empty
       /\ call[p].cand.meaning_english # Empty
       /\ call[p].cand.source # Empty
       /\ \E i \in DOMAIN QUOTE_CATEGORIES : QUOTE_CATEGORIES[i] = call[p].cand.category

\* the same for the quotes that come from the fallback table
C22_FallbackQuoteValid ==
  \A p \in Callers :
    (call[p].pc = "insert" /\ ~call[p].aiParsed)
    => /\ call[p].cand.shlok # Empty
       /\ call[p].cand.meaning_hindi # Empty
       /\ call[p].cand.meaning_english # Empty
       /\ call[p].cand.source # Empty
       /\ \E i \in DOMAIN QUOTE_CATEGORIES : QUOTE_CATEGORIES[i] = call[p].cand.category


\* C27: once a read has returned record R for date D, every later read for D
\* returns R, whatever generateAndStoreQuote calls run in between.
C27_StableOnceVisible ==
  [][\A d \in Dates :
       LET R == getQuoteByDate(quotes, daily_logs, now, DateArg(d), FALSE)
       IN R # Null
          => getQuoteByDate(quotes', daily_logs', now', DateArg(d), FALSE) = R]_vars

\* C28: when generateAndStoreQuote has raised, quotes holds no record that
\* the call inserted.
C28_NoRecordAfterRaise ==
  \A p \in Callers :
    call[p].pc = "failed" => \A x \in quotes : x.id # call[p].newQuote.id

\* C29: the date under which a call links its record is the date of its
\* existence check and of its created_at, also when the day changes while
\* the call is in flight.
C29_LinkDateIsToday ==
  \A p \in Callers :
    call[p].linkDate # 0 - 1
    => /\ call[p].linkDate = call[p].today
       /\ \A r \in daily_logs :
            r.quote_id = call[p].newQuote.id
            => r.created_at = get6AMISTTimestamp(r.date, hostOffset)

\* a call that has begun and not ended
inFlight(p) ==
  call[p].pc \in {"ai", "retry", "fallback", "fbpick", "insert", "link",
                  "refetch", "cleanup"}

C30_Bounds ==
  \A p \in Callers :
    /\ call[p].aiCalls <= 4
    /\ call[p].inserts <= 2
    /\ call[p].upserts <= 1
    /\ call[p].deletes <= 1
    /\ call[p].pc = "done" => call[p].result # Null
    /\ call[p].pc = "failed" => call[p].error # "none"

\* C30: every generateAndStoreQuote call ends, returning a record or raising,
\* when each external call returns or fails, after at most 4 completion
\* requests, 2 quotes inserts, 1 daily_logs upsert and 1 delete: the bounds
\* hold throughout, and from some moment on no call is in flight (the calls
\* of a behaviour are finitely many).
C30_TerminatesWithinBounds ==
  /\ []C30_Bounds
  /\ <>[](\A p \in Callers : ~inFlight(p))

\* a call has ended after four completion requests and two inserts
C30_Witness ==
  \E p \in Callers :
    /\ call[p].pc \in {"done", "failed"}
    /\ call[p].aiCalls = 4
    /\ call[p].inserts = 2

====
